---------------------------- MODULE Spec2Model ----------------------------
(***************************************************************************)
(* A model of terminator's PtyGenerator (native/all/pty/PtyGenerator.h):   *)
(* the allocation of a pseudo-terminal master (openMaster / ptym_open /    *)
(* search_for_pty) and the bootstrap of the child process (forkAndExec /   *)
(* runChild and its helpers).                                              *)
(*                                                                         *)
(* Two specifications share the variables:                                 *)
(*   Spec       forkAndExec after a successful openMaster: the parent's    *)
(*              fork and every step of the child, with each system call    *)
(*              free to succeed or fail.                                   *)
(*   SpecAlloc  openMaster, step by step, in an environment that fixes     *)
(*              which master devices exist, are busy or are free.          *)
(*                                                                         *)
(* A descriptor table maps descriptor numbers to the device the            *)
(* descriptor is open on (NoDev when closed).  Devices and strings are     *)
(* sequences of tokens, so that concatenation is \o.                       *)
(***************************************************************************)
EXTENDS Integers, Sequences, FiniteSets, TLC

\* ------------------------------------------------------------------ bounds
\* Highest descriptor number the parent may hold open when it forks.
MaxInheritFd == 3
\* In SpecAlloc: how many candidates after the first non-busy one may
\* themselves be non-busy.
MaxGap == 1

\* ------------------------------------------------------- program constants
STDIN_FILENO == 0
STDOUT_FILENO == 1
STDERR_FILENO == 2

\* The two character tables of the legacy scan.
Ptr1 == <<"p","q","r","s","t","u","v","w","x","y","z","P","Q","R","S","T">>
Ptr2 == <<"0","1","2","3","4","5","6","7","8","9","a","b","c","d","e","f">>

\* ------------------------------------------------------------ descriptors
NoDev == <<>>
FileDev == <<"file">>
PtmxDev == <<"/dev/ptmx">>

\* Descriptor numbers of the model: the inherited ones plus room for the
\* slave and for the directory stream of closeUnusedFiles.
Fds == 0..(MaxInheritFd + 2)

OpenFds(t) == {fd \in DOMAIN t : t[fd] # NoDev}

HasFree(t) == \E fd \in DOMAIN t : t[fd] = NoDev

\* open(2), dup(2) and opendir(3) take the lowest unused descriptor number.
LowestFree(t) ==
    CHOOSE fd \in DOMAIN t :
        t[fd] = NoDev /\ \A g \in DOMAIN t : g < fd => t[g] # NoDev

Close(t, fd) == IF fd \in DOMAIN t THEN [t EXCEPT ![fd] = NoDev] ELSE t

\* ---------------------------------------------------------------- strings
Digit == <<"0","1","2","3","4","5","6","7","8","9">>

RECURSIVE Decimal(_)
Decimal(n) == IF n < 10 THEN <<Digit[n + 1]>>
              ELSE Decimal(n \div 10) \o <<Digit[(n % 10) + 1]>>

\* toString(int): the decimal representation, with a sign when negative.
toString(n) == IF n < 0 THEN <<"-">> \o Decimal(0 - n) ELSE Decimal(n)

Contains(text, tok) == \E i \in 1..Len(text) : text[i] = tok

\* What strtoul(name, NULL, 10) returns: the value of the leading decimal
\* digits of the name, 0 when there are none ("." and "..").
IsDigit(c) == \E i \in 1..Len(Digit) : Digit[i] = c

DigitValue(c) == (CHOOSE i \in 1..Len(Digit) : Digit[i] = c) - 1

RECURSIVE StrtoulFrom(_, _, _)
StrtoulFrom(s, i, acc) ==
    IF i > Len(s) \/ ~IsDigit(s[i]) THEN acc
    ELSE StrtoulFrom(s, i + 1, acc * 10 + DigitValue(s[i]))

Strtoul(s) == StrtoulFrom(s, 1, 0)

\* ------------------------------------------------------------- exceptions
NoException == [type |-> "none", what |-> <<>>]

\* unix_exception (unix_exception.h): a std::runtime_error whose text is the
\* message followed by the description of errno.
unix_exception(message) ==
    [type |-> "unix_exception",
     what |-> message \o <<": (", "strerror(errno)", ")">>]

child_exception(message) ==
    [type |-> "child_exception",
     what |-> unix_exception(<<"Error from child: ">> \o message).what]

\* The exception object alone; the constructor's write is in ViaPipe below.
child_exception_via_pipe(message) ==
    [type |-> "child_exception_via_pipe",
     what |-> child_exception(message).what]

\* Faulty variant of PublicBases: child_exception_via_pipe taken to derive
\* publicly from child_exception.
PublicBases_ViaPipePublic(type) ==
    IF type = "none" THEN {}
    ELSE {type, "child_exception", "unix_exception", "std::runtime_error",
          "std::exception"}

\* The classes a handler can name to catch an exception of the given class:
\* the class itself and its accessible (public) bases.  A class declared
\* "class D : B" derives from B privately, so B and B's bases are not among
\* them.
PublicBases(type) ==
    CASE type = "unix_exception" ->
            {"unix_exception", "std::runtime_error", "std::exception"}
      [] type = "child_exception" ->
            {"child_exception", "unix_exception", "std::runtime_error",
             "std::exception"}
      [] type = "child_exception_via_pipe" ->
            {"child_exception_via_pipe"}
      [] OTHER -> {}

\* catch (const std::exception& ex) in forkAndExec.
HandlerMatches(e) == "std::exception" \in PublicBases(e.type)

\* Faulty variant of CantExecute: the program's name left out of the text.
CantExecute_NoName(cmd0) == <<"Can't execute '">> \o <<"'">>

\* The text of the exception thrown when execvp returns.
CantExecute(cmd0) == <<"Can't execute '">> \o <<cmd0>> \o <<"'">>

\* ------------------------------------------------------------ environment
Unset == <<>>

\* The parent's process id (what getppid() returns in the child) and the
\* process ids that may key inherited APP_ICON_<pid> style variables.
ParentPids == {41}
OtherPids == {7}
ChildPids == {42}

PidKeyed == {<<"APP_ICON_">>, <<"APP_NAME_">>, <<"JAVA_MAIN_CLASS_">>}

EnvNames ==
    {<<"TERM">>, <<"WINDOWID">>, <<"COLORTERM">>, <<"TERM_PROGRAM">>,
     <<"TERM_PROGRAM_VERSION">>, <<"HOME">>}
    \cup {k \o toString(pid) : k \in PidKeyed, pid \in ParentPids \cup OtherPids}

\* putenv("NAME=value"): the text before the first "=" names the variable.
Putenv(e, str) ==
    LET eq == CHOOSE i \in 1..Len(str) :
                  str[i] = "=" /\ \A j \in 1..(i - 1) : str[j] # "="
    IN  [e EXCEPT ![SubSeq(str, 1, eq - 1)] = SubSeq(str, eq + 1, Len(str))]

Unsetenv(e, name) == IF name \in DOMAIN e THEN [e EXCEPT ![name] = Unset] ELSE e

\* Variant: the pid-keyed variables are looked up under the child's own pid.
fixEnvironment_OwnPid(e, apple, parentPid) ==
    LET e1 == Putenv(e, <<"TERM", "=", "terminator">>)
        e2 == Unsetenv(e1, <<"WINDOWID">>)
        own == CHOOSE pid \in OtherPids : TRUE
    IN  IF apple
        THEN LET e3 == Unsetenv(e2, <<"APP_ICON_">> \o toString(own))
                 e4 == Unsetenv(e3, <<"APP_NAME_">> \o toString(own))
                 e5 == Unsetenv(e4, <<"JAVA_MAIN_CLASS_">> \o toString(own))
                 e6 == Unsetenv(e5, <<"TERM_PROGRAM">>)
             IN  Unsetenv(e6, <<"TERM_PROGRAM_VERSION">>)
        ELSE Unsetenv(e2, <<"COLORTERM">>)

fixEnvironment(e, apple, parentPid) ==
    LET e1 == Putenv(e, <<"TERM", "=", "terminator">>)
        e2 == Unsetenv(e1, <<"WINDOWID">>)
    IN  IF apple
        THEN LET e3 == Unsetenv(e2, <<"APP_ICON_">> \o toString(parentPid))
                 e4 == Unsetenv(e3, <<"APP_NAME_">> \o toString(parentPid))
                 e5 == Unsetenv(e4, <<"JAVA_MAIN_CLASS_">> \o toString(parentPid))
                 e6 == Unsetenv(e5, <<"TERM_PROGRAM">>)
             IN  Unsetenv(e6, <<"TERM_PROGRAM_VERSION">>)
        ELSE Unsetenv(e2, <<"COLORTERM">>)

\* Environments a child may inherit.
InheritedEnvs ==
    {[n \in EnvNames |-> IF n = <<"TERM">> THEN <<"xterm">> ELSE <<"set">>],
     [n \in EnvNames |-> IF n = <<"HOME">> THEN <<"/root">> ELSE Unset]}

\* ---------------------------------------------------------------- signals
Signals == {"SIGINT", "SIGQUIT", "SIGCHLD", "SIGTERM"}

InheritedSigs ==
    {[g \in Signals |-> "SIG_DFL"],
     [g \in Signals |-> IF g = "SIGTERM" THEN "handler" ELSE "SIG_IGN"]}

\* Variant: SIGCHLD is left as inherited.
ResetSignals_NoSigchld(d) ==
    [[d EXCEPT !["SIGINT"] = "SIG_DFL"] EXCEPT !["SIGQUIT"] = "SIG_DFL"]

\* signal(SIGINT, SIG_DFL); signal(SIGQUIT, SIG_DFL); signal(SIGCHLD, SIG_DFL)
ResetSignals(d) ==
    [[[d EXCEPT !["SIGINT"] = "SIG_DFL"]
          EXCEPT !["SIGQUIT"] = "SIG_DFL"]
          EXCEPT !["SIGCHLD"] = "SIG_DFL"]

\* ------------------------------------------------------- closeUnusedFiles
fdDirectory(apple) == IF apple THEN <<"/dev/fd">> ELSE <<"/proc/self/fd">>

\* The entries DirectoryIterator yields for the descriptor directory: one
\* name per open descriptor (the directory stream's own included), and the
\* two dot entries.
DirectoryNames(t) == {toString(fd) : fd \in OpenFds(t)} \cup {<<".">>, <<".", ".">>}

\* Faulty variant of Pass1: the comparison off by one.
Pass1_OffByOne(names) ==
    {fd \in {Strtoul(n) : n \in names} : fd > STDERR_FILENO + 1}

\* Pass 1: the descriptor numbers collected for closing.
Pass1(names) == {fd \in {Strtoul(n) : n \in names} : fd > STDERR_FILENO}

\* Pass 2: close each of them; closing a number that is not open fails and
\* is ignored.
Pass2(t, fds) == [fd \in DOMAIN t |-> IF fd \in fds THEN NoDev ELSE t[fd]]

closeUnusedFiles(t, apple) ==
    LET dirFd == LowestFree(t)
        t1 == [t EXCEPT ![dirFd] = fdDirectory(apple)]
        fds == Pass1(DirectoryNames(t1))
        \* the iterator goes out of scope at the end of the first loop
        t2 == Close(t1, dirFd)
    IN  Pass2(t2, fds)

\* ----------------------------------------------------------------- builds
\* The conditional compilation the code depends on.
Builds ==
    {[name |-> "linux", TIOCSCTTY |-> TRUE, APPLE |-> FALSE],
     [name |-> "apple", TIOCSCTTY |-> TRUE, APPLE |-> TRUE],
     [name |-> "other", TIOCSCTTY |-> FALSE, APPLE |-> FALSE]}

\* Master and slave device of an allocated pair.
PtyPairs ==
    {[master |-> PtmxDev, slave |-> <<"/dev/pts/", "0">>],
     [master |-> <<"/dev/pty", "p", "0">>, slave |-> <<"/dev/tty", "p", "0">>]}

Commands == {"nonexistent", "/bin/sh"}

WorkingDirectories == {<<>>, <<"/tmp">>}

NoTunnel ==
    [state |-> "none", fd |-> -1, mode |-> "-", buf |-> <<>>,
     printed |-> <<>>, err |-> FALSE]

\* -------------------------------------------------------------- variables
VARIABLES
    \* PtyGenerator's fields and the parent process
    pfd,            \* the parent's descriptor table
    masterFd,       \* PtyGenerator::masterFd
    ptyName,        \* PtyGenerator::ptyName
    ppc,            \* where the parent is in forkAndExec
    ret,            \* what forkAndExec returned to the parent
    penv,           \* the parent's environment
    psig,           \* the parent's signal dispositions
    \* openMaster
    apc,            \* where openMaster is
    ptmx_fd,        \* ptym_open's local
    ptr1, ptr2,     \* search_for_pty's loop indices into Ptr1 and Ptr2
    ptmxAvail,      \* environment: can /dev/ptmx be opened
    nonBusy,        \* environment: the candidates that are not busy
    allocError,     \* the text of the exception openMaster threw
    nOpens,         \* history: open() calls made by the scan
    lastOpened,     \* history: the candidate the scan opened last
    pfd0,           \* history: the parent's table when openMaster was called
    returned,       \* history: the descriptors openMaster has returned
    \* the child process
    cpc,            \* where the child is
    cfd,            \* the child's descriptor table
    childFd,        \* runChild's local
    workingDirectory, cmd, build, ppid,
    exc,            \* the exception in flight
    failedStep,     \* history: the step that failed
    steps,          \* history: the steps the child has carried out
    tunnel,         \* the stdio stream child_exception_via_pipe opens
    cerr,           \* history: the texts inserted into std::cerr
    written,        \* history: the write(2) calls that succeeded
    exitStatus,     \* the status passed to exit(), -1 before
    env,            \* the child's environment
    sig             \* the child's signal dispositions

parentVars == <<pfd, masterFd, ptyName, ppc, ret, penv, psig>>

allocVars == <<apc, ptmx_fd, ptr1, ptr2, ptmxAvail, nonBusy, allocError,
               nOpens, lastOpened, pfd0, returned>>

childVars == <<cpc, cfd, childFd, workingDirectory, cmd, build, ppid, exc,
               failedStep, steps, tunnel, cerr, written, exitStatus, env, sig>>

vars == <<parentVars, allocVars, childVars>>

AllClosed == [fd \in Fds |-> NoDev]

\* ------------------------------------------------------------------- Init
\* forkAndExec is called on a generator whose openMaster has succeeded: the
\* parent holds the master open on masterFd and ptyName names the slave.
Init ==
    /\ \E pair \in PtyPairs :
         \E t \in [0..MaxInheritFd -> {NoDev, FileDev, pair.master}],
            m \in 0..MaxInheritFd :
            /\ t[m] = pair.master
            /\ pfd = [fd \in Fds |-> IF fd <= MaxInheritFd THEN t[fd] ELSE NoDev]
            /\ masterFd = m
            /\ ptyName = pair.slave
    /\ pfd0 = pfd
    /\ returned = {masterFd}
    /\ ppc = "fork" /\ ret = 0
    /\ apc = "returned" /\ ptmx_fd = -1 /\ ptr1 = 1 /\ ptr2 = 1
    /\ ptmxAvail = TRUE /\ nonBusy = {} /\ allocError = <<>>
    /\ nOpens = 0 /\ lastOpened = <<>>
    /\ cpc = "none" /\ cfd = AllClosed /\ childFd = -1
    /\ workingDirectory \in WorkingDirectories
    /\ cmd \in Commands
    /\ build \in Builds
    /\ ppid \in ParentPids
    /\ exc = NoException /\ failedStep = "none" /\ steps = <<>>
    /\ tunnel = NoTunnel /\ cerr = <<>> /\ written = <<>>
    /\ exitStatus = -1
    /\ penv \in InheritedEnvs
    /\ psig \in InheritedSigs
    /\ env = penv
    /\ sig = psig

\* Variant of the failing fork: the error return is lost.
ForkFails_ReturnsZero ==
    /\ ppc = "fork"
    /\ ppc' = "returned" /\ ret' = 0
    /\ UNCHANGED <<pfd, masterFd, ptyName, penv, psig, allocVars, childVars>>

\* ------------------------------------------------------------ forkAndExec
\* pid < 0: return -1.
ForkFails ==
    /\ ppc = "fork"
    /\ ppc' = "returned" /\ ret' = -1
    /\ UNCHANGED <<pfd, masterFd, ptyName, penv, psig, allocVars, childVars>>

\* pid > 0 in the parent, pid == 0 in the child, which starts with a copy of
\* the parent's descriptor table, environment and signal dispositions.
ForkSucceeds ==
    /\ ppc = "fork"
    /\ \E pid \in ChildPids : ret' = pid
    /\ ppc' = "returned"
    /\ cpc' = "chdir" /\ cfd' = pfd /\ env' = penv /\ sig' = psig
    /\ UNCHANGED <<pfd, masterFd, ptyName, penv, psig, allocVars, childFd,
                   workingDirectory, cmd, build, ppid, exc, failedStep, steps,
                   tunnel, cerr, written, exitStatus>>

\* What every child step leaves alone.
ChildFrame == UNCHANGED <<parentVars, allocVars, workingDirectory, cmd, build,
                          ppid, exitStatus>>

\* throw e, from the named step.
Throw(e, step) ==
    /\ exc' = e /\ failedStep' = step /\ cpc' = "thrown"

\* A step that succeeded and hands over to the next one.
Done(step, next) ==
    /\ steps' = Append(steps, step) /\ cpc' = next
    /\ UNCHANGED <<exc, failedStep>>

\* throw child_exception_via_pipe(pipeFd, message): the constructor opens a
\* stdio stream on the descriptor and prints the text to it, without
\* checking fdopen's result and without flushing or closing the stream.
\*   fdopenOk  whether fdopen returned a stream;
\*   mode      the buffering the C library gives the stream: line buffered
\*             when it finds the descriptor to be a terminal, else fully
\*             buffered (the text then stays in the stream's buffer);
\*   writeOk   whether the write(2) of a line buffered stream succeeds;
\*   crash     fprintf on a null stream is undefined: the process is killed
\*             by SIGSEGV, or the call returns having printed nothing.
ViaPipe(pipeFd, message, step, fdopenOk, mode, writeOk, crash) ==
    LET e == child_exception_via_pipe(message)
        line == e.what \o <<"\n">>
    IN  IF fdopenOk
        THEN /\ tunnel' = [state |-> "open", fd |-> pipeFd, mode |-> mode,
                           buf |-> IF mode = "full" THEN <<line>> ELSE <<>>,
                           printed |-> <<line>>,
                           err |-> (mode = "line" /\ ~writeOk)]
             /\ written' = IF mode = "line" /\ writeOk
                           THEN Append(written, [via |-> "tunnel", fd |-> pipeFd,
                                                 dev |-> cfd[pipeFd], text |-> line])
                           ELSE written
             /\ Throw(e, step)
             /\ UNCHANGED cfd
        ELSE /\ tunnel' = [NoTunnel EXCEPT !.state = "null"]
             /\ written' = written
             /\ IF crash
                THEN /\ cpc' = "crashed" /\ failedStep' = step
                     /\ cfd' = AllClosed
                     /\ UNCHANGED exc
                ELSE Throw(e, step) /\ UNCHANGED cfd

\* if (workingDirectory != 0) { if (chdir(workingDirectory) < 0) throw ... }
Chdir ==
    /\ cpc = "chdir"
    /\ IF workingDirectory = <<>>
       THEN cpc' = "setsid" /\ UNCHANGED <<exc, failedStep, steps>>
       ELSE \E ok \in BOOLEAN :
              IF ok THEN Done("chdir", "setsid")
              ELSE /\ Throw(child_exception(<<"chdir(\"">> \o workingDirectory
                                            \o <<"\")">>), "chdir")
                   /\ UNCHANGED steps
    /\ UNCHANGED <<cfd, childFd, tunnel, cerr, written, env, sig>>
    /\ ChildFrame

\* Variant: the result of setsid is not checked.
Setsid_Unchecked ==
    /\ cpc = "setsid"
    /\ \E ok \in BOOLEAN :
         IF ok THEN Done("setsid", "openSlave")
         ELSE cpc' = "openSlave" /\ UNCHANGED <<exc, failedStep, steps>>
    /\ UNCHANGED <<cfd, childFd, tunnel, cerr, written, env, sig>>
    /\ ChildFrame

\* if (setsid() < 0) throw child_exception("setsid()")
Setsid ==
    /\ cpc = "setsid"
    /\ \E ok \in BOOLEAN :
         IF ok THEN Done("setsid", "openSlave")
         ELSE Throw(child_exception(<<"setsid()">>), "setsid") /\ UNCHANGED steps
    /\ UNCHANGED <<cfd, childFd, tunnel, cerr, written, env, sig>>
    /\ ChildFrame

\* Variant: the master is closed before the slave's open is known to succeed.
OpenSlaveAndCloseMaster_CloseFirst ==
    /\ cpc = "openSlave"
    /\ \E ok \in BOOLEAN :
         IF ok /\ HasFree(cfd)
         THEN LET fds == LowestFree(cfd)
              IN  /\ cfd' = Close([cfd EXCEPT ![fds] = ptyName], masterFd)
                  /\ childFd' = fds
                  /\ Done("openSlave", "tiocsctty")
         ELSE /\ Throw(unix_exception(<<"open(">> \o ptyName
                           \o <<", O_RDWR | O_NOCTTY) failed">>), "openSlave")
              /\ cfd' = Close(cfd, masterFd)
              /\ UNCHANGED <<childFd, steps>>
    /\ UNCHANGED <<tunnel, cerr, written, env, sig>>
    /\ ChildFrame

\* int childFd = ptyGenerator.openSlaveAndCloseMaster(): chown and chmod of
\* the slave are not checked and change no state of the process; open takes
\* the lowest free descriptor; then close(masterFd).
OpenSlaveAndCloseMaster ==
    /\ cpc = "openSlave"
    /\ \E ok \in BOOLEAN :
         IF ok /\ HasFree(cfd)
         THEN LET fds == LowestFree(cfd)
              IN  /\ cfd' = Close([cfd EXCEPT ![fds] = ptyName], masterFd)
                  /\ childFd' = fds
                  /\ Done("openSlave", "tiocsctty")
         ELSE /\ Throw(unix_exception(<<"open(">> \o ptyName
                           \o <<", O_RDWR | O_NOCTTY) failed">>), "openSlave")
              /\ UNCHANGED <<cfd, childFd, steps>>
    /\ UNCHANGED <<tunnel, cerr, written, env, sig>>
    /\ ChildFrame

\* #if defined(TIOCSCTTY): if (ioctl(childFd, TIOCSCTTY, 0) < 0) throw ...
Tiocsctty ==
    /\ cpc = "tiocsctty"
    /\ IF ~build.TIOCSCTTY
       THEN /\ cpc' = "dup2_stdin"
            /\ UNCHANGED <<exc, failedStep, steps, cfd, tunnel, written>>
       ELSE \E ok \in BOOLEAN :
              IF ok
              THEN Done("tiocsctty", "dup2_stdin") /\ UNCHANGED <<cfd, tunnel, written>>
              ELSE /\ \E fdopenOk \in BOOLEAN, mode \in {"line", "full"},
                         writeOk \in BOOLEAN, crash \in BOOLEAN :
                        ViaPipe(childFd,
                                <<"ioctl(">> \o toString(childFd) \o <<", TIOCSCTTY, 0)">>,
                                "tiocsctty", fdopenOk, mode, writeOk, crash)
                   /\ UNCHANGED steps
    /\ UNCHANGED <<childFd, cerr, env, sig>>
    /\ ChildFrame

\* if (childFd != SLOT && dup2(childFd, SLOT) != SLOT) throw ...
Dup2(here, slot, slotName, next) ==
    /\ cpc = here
    /\ IF childFd = slot
       THEN /\ cpc' = next
            /\ UNCHANGED <<exc, failedStep, steps, cfd, tunnel, written>>
       ELSE \E ok \in BOOLEAN :
              IF ok
              THEN /\ cfd' = [cfd EXCEPT ![slot] = cfd[childFd]]
                   /\ Done(here, next)
                   /\ UNCHANGED <<tunnel, written>>
              ELSE /\ \E fdopenOk \in BOOLEAN, mode \in {"line", "full"},
                         writeOk \in BOOLEAN, crash \in BOOLEAN :
                        ViaPipe(childFd,
                                <<"dup2(">> \o toString(childFd) \o <<", ", slotName, ")">>,
                                here, fdopenOk, mode, writeOk, crash)
                   /\ UNCHANGED steps
    /\ UNCHANGED <<childFd, cerr, env, sig>>
    /\ ChildFrame

DupStdin == Dup2("dup2_stdin", STDIN_FILENO, "STDIN_FILENO", "dup2_stdout")

DupStdout == Dup2("dup2_stdout", STDOUT_FILENO, "STDOUT_FILENO", "dup2_stderr")

DupStderr == Dup2("dup2_stderr", STDERR_FILENO, "STDERR_FILENO", "close_childFd")

\* Variant: the comparison with STDERR_FILENO is off by one.
CloseChildFd_OffByOne ==
    /\ cpc = "close_childFd"
    /\ cfd' = IF childFd >= STDERR_FILENO THEN Close(cfd, childFd) ELSE cfd
    /\ Done("close_childFd", "closeUnusedFiles")
    /\ UNCHANGED <<childFd, tunnel, cerr, written, env, sig>>
    /\ ChildFrame

\* if (childFd > STDERR_FILENO) close(childFd)
CloseChildFd ==
    /\ cpc = "close_childFd"
    /\ cfd' = IF childFd > STDERR_FILENO THEN Close(cfd, childFd) ELSE cfd
    /\ Done("close_childFd", "closeUnusedFiles")
    /\ UNCHANGED <<childFd, tunnel, cerr, written, env, sig>>
    /\ ChildFrame

\* closeUnusedFiles(): when the descriptor directory cannot be opened the
\* iterator's constructor throws (DirectoryIterator.h).
CloseUnusedFiles ==
    /\ cpc = "closeUnusedFiles"
    /\ \E ok \in BOOLEAN :
         IF ok /\ HasFree(cfd)
         THEN /\ cfd' = closeUnusedFiles(cfd, build.APPLE)
              /\ Done("closeUnusedFiles", "fixEnvironment")
         ELSE /\ Throw(unix_exception(<<"opendir(\"">> \o fdDirectory(build.APPLE)
                                      \o <<"\") failed">>), "closeUnusedFiles")
              /\ UNCHANGED <<cfd, steps>>
    /\ UNCHANGED <<childFd, tunnel, cerr, written, env, sig>>
    /\ ChildFrame

FixEnvironment ==
    /\ cpc = "fixEnvironment"
    /\ env' = fixEnvironment(env, build.APPLE, ppid)
    /\ Done("fixEnvironment", "signal")
    /\ UNCHANGED <<cfd, childFd, tunnel, cerr, written, sig>>
    /\ ChildFrame

SignalReset ==
    /\ cpc = "signal"
    /\ sig' = ResetSignals(sig)
    /\ Done("signal", "execvp")
    /\ UNCHANGED <<cfd, childFd, tunnel, cerr, written, env>>
    /\ ChildFrame

\* execvp(cmd[0], cmd); throw unix_exception("Can't execute '...'") -- the
\* throw is reached only when execvp returns.
Execvp ==
    /\ cpc = "execvp"
    /\ \E ok \in BOOLEAN :
         IF ok THEN Done("execvp", "image_replaced")
         ELSE Throw(unix_exception(CantExecute(cmd)), "execvp") /\ UNCHANGED steps
    /\ UNCHANGED <<cfd, childFd, tunnel, cerr, written, env, sig>>
    /\ ChildFrame

\* ------------------------------------------- leaving forkAndExec's try block
\* What a flush of the tunnel stream adds to the writes, when the stream
\* holds buffered text and the write succeeds.
Flushed(ok) ==
    IF tunnel.state = "open" /\ tunnel.buf # <<>> /\ ok
    THEN written \o [i \in 1..Len(tunnel.buf) |->
                        [via |-> "tunnel", fd |-> tunnel.fd,
                         dev |-> cfd[tunnel.fd], text |-> tunnel.buf[i]]]
    ELSE written

\* catch (const std::exception& ex) { std::cerr << ex.what() << std::endl; }
\* std::cerr writes to descriptor 2, whatever that is open on.
Catch ==
    /\ cpc = "thrown"
    /\ HandlerMatches(exc)
    /\ LET line == exc.what \o <<"\n">>
       IN  /\ cerr' = Append(cerr, line)
           /\ written' = IF cfd[STDERR_FILENO] # NoDev
                         THEN Append(written, [via |-> "cerr", fd |-> STDERR_FILENO,
                                               dev |-> cfd[STDERR_FILENO],
                                               text |-> line])
                         ELSE written
    /\ cpc' = "exit"
    /\ UNCHANGED <<cfd, childFd, exc, failedStep, steps, tunnel, env, sig>>
    /\ ChildFrame

\* exit(1): flushes and closes the open stdio streams, then the process
\* ends and its descriptors are closed.
Exit ==
    /\ cpc = "exit"
    /\ \E ok \in BOOLEAN : written' = Flushed(ok)
    /\ tunnel' = IF tunnel.state = "open" THEN [tunnel EXCEPT !.buf = <<>>] ELSE tunnel
    /\ exitStatus' = 1
    /\ cfd' = AllClosed
    /\ cpc' = "exited"
    /\ UNCHANGED <<parentVars, allocVars, childFd, workingDirectory, cmd, build,
                   ppid, exc, failedStep, steps, cerr, env, sig>>

\* The handler does not match: the exception leaves forkAndExec.  When a
\* frame above forkAndExec has a matching handler (catch (...), say),
\* control passes to that handler, in the caller.
CallerCatches ==
    /\ cpc = "thrown"
    /\ ~HandlerMatches(exc)
    /\ cpc' = "in_caller"
    /\ UNCHANGED <<cfd, childFd, exc, failedStep, steps, tunnel, cerr, written,
                   env, sig>>
    /\ ChildFrame

\* When no frame has a matching handler, std::terminate() is called, which
\* calls abort(): the process is killed by SIGABRT.  Whether abort flushes
\* open stdio streams is implementation-defined.
Terminate ==
    /\ cpc = "thrown"
    /\ ~HandlerMatches(exc)
    /\ \E flush \in BOOLEAN : written' = Flushed(flush)
    /\ cfd' = AllClosed
    /\ cpc' = "aborted"
    /\ UNCHANGED <<childFd, exc, failedStep, steps, tunnel, cerr, env, sig>>
    /\ ChildFrame

Next ==
    \/ ForkFails
    \/ ForkSucceeds
    \/ Chdir
    \/ Setsid
    \/ OpenSlaveAndCloseMaster
    \/ Tiocsctty
    \/ DupStdin
    \/ DupStdout
    \/ DupStderr
    \/ CloseChildFd
    \/ CloseUnusedFiles
    \/ FixEnvironment
    \/ SignalReset
    \/ Execvp
    \/ Catch
    \/ Exit
    \/ CallerCatches
    \/ Terminate

Spec == Init /\ [][Next]_vars

\* ------------------------------------------------------------- openMaster
\* The candidates of the legacy scan are pairs <<i, j>> of indices into Ptr1
\* and Ptr2; Lin numbers them in the order of the two nested loops.
Candidates == (1..Len(Ptr1)) \X (1..Len(Ptr2))

Lin(c) == (c[1] - 1) * Len(Ptr2) + c[2]

Cand(k) == <<((k - 1) \div Len(Ptr2)) + 1, ((k - 1) % Len(Ptr2)) + 1>>

\* Variant: the two loop variables exchanged in the device name, which makes
\* the second character the outer loop.
MasterName_Swapped(c) == <<"/dev/pty", Ptr1[c[2]], Ptr2[c[1]]>>

MasterName(c) == <<"/dev/pty", Ptr1[c[1]], Ptr2[c[2]]>>

\* Faulty variant of SlaveName: the master's name returned as the slave's.
SlaveName_NotRenamed(c) == <<"/dev/pty", Ptr1[c[1]], Ptr2[c[2]]>>

SlaveName(c) == <<"/dev/tty", Ptr1[c[1]], Ptr2[c[2]]>>

OutOfPtys == <<"Out of pseudo-terminal devices">>

\* The environment: what open() of a candidate master does.  Candidates not
\* named in nonBusy are busy (open fails with EIO), and so is a master this
\* process already holds open.
DevStatus(c) ==
    IF \E fd \in DOMAIN pfd : pfd[fd] = MasterName(c) THEN "EIO"
    ELSE IF \E r \in nonBusy : r.cand = c
    THEN (CHOOSE r \in nonBusy : r.cand = c).status
    ELSE "EIO"

\* The environments of SpecAlloc: every candidate busy, or a first non-busy
\* candidate anywhere (free, or missing) followed by up to MaxGap candidates
\* of any status.
ScanEnvironments ==
    {{}} \cup
    UNION {
      { {[cand |-> Cand(k), status |-> s]} \cup
        {[cand |-> Cand(k + d), status |-> g[d]] :
            d \in {e \in 1..MaxGap : k + e <= Cardinality(Candidates) /\ g[e] # "EIO"}}
        : g \in [1..MaxGap -> {"EIO", "free", "ENOENT"}] }
      : k \in 1..Cardinality(Candidates), s \in {"free", "ENOENT"} }

PtsNumbers == {0}

\* Faulty variant of OnOpenFailure: a missing device skipped like a busy one.
OnOpenFailure_AlwaysContinue(errno) == "continue"

\* if (fdm < 0) { if (errno == ENOENT) throw ...; else continue; }
OnOpenFailure(errno) == IF errno = "ENOENT" THEN "throw" ELSE "continue"

\* Faulty variant of InnerDone: the inner loop stops one character early.
InnerDone_OneEarly(j) == j >= Len(Ptr2)

\* The inner loop's condition *ptr2 != 0 has become false.
InnerDone(j) == j > Len(Ptr2)

\* The state after construction (masterFd(-1), ptyName empty), at the call
\* of openMaster; the process has its standard descriptors open.
InitAlloc ==
    /\ \E t \in [(STDERR_FILENO + 1)..MaxInheritFd -> {NoDev, FileDev}] :
         pfd = [fd \in Fds |-> IF fd <= STDERR_FILENO THEN FileDev
                               ELSE IF fd <= MaxInheritFd THEN t[fd] ELSE NoDev]
    /\ pfd0 = pfd
    /\ masterFd = -1 /\ ptyName = <<>>
    /\ returned = {}
    /\ ppc = "idle" /\ ret = 0
    /\ apc = "ptym_open" /\ ptmx_fd = -1 /\ ptr1 = 1 /\ ptr2 = 1
    /\ \/ ptmxAvail = TRUE /\ nonBusy = {}
       \/ ptmxAvail = FALSE /\ nonBusy \in ScanEnvironments
    /\ allocError = <<>> /\ nOpens = 0 /\ lastOpened = <<>>
    /\ cpc = "none" /\ cfd = AllClosed /\ childFd = -1
    /\ workingDirectory = <<>>
    /\ cmd = "/bin/sh"
    /\ build = CHOOSE b \in Builds : b.name = "linux"
    /\ ppid = CHOOSE q \in ParentPids : TRUE
    /\ exc = NoException /\ failedStep = "none" /\ steps = <<>>
    /\ tunnel = NoTunnel /\ cerr = <<>> /\ written = <<>>
    /\ exitStatus = -1
    /\ penv = CHOOSE e \in InheritedEnvs : e[<<"TERM">>] = <<"xterm">>
    /\ psig = CHOOSE d \in InheritedSigs : d["SIGINT"] = "SIG_DFL"
    /\ env = penv
    /\ sig = psig

AllocFrame == UNCHANGED <<ppc, ret, penv, psig, ptmxAvail, nonBusy, pfd0, childVars>>

\* An exception leaves ptym_open and openMaster: masterFd is not assigned.
AllocThrow(what) ==
    /\ apc' = "threw" /\ allocError' = what
    /\ UNCHANGED <<masterFd, returned>>

\* int ptmx_fd = open("/dev/ptmx", O_RDWR);
\* if (ptmx_fd < 0) return search_for_pty(pts_name);
OpenPtmx ==
    /\ apc = "ptym_open"
    /\ IF ptmxAvail /\ HasFree(pfd)
       THEN /\ ptmx_fd' = LowestFree(pfd)
            /\ pfd' = [pfd EXCEPT ![LowestFree(pfd)] = PtmxDev]
            /\ apc' = "ptsname"
       ELSE /\ apc' = "scan"
            /\ UNCHANGED <<ptmx_fd, pfd>>
    /\ UNCHANGED <<masterFd, returned, ptyName, ptr1, ptr2, allocError, nOpens,
                   lastOpened>>
    /\ AllocFrame

\* const char* name = ptsname(ptmx_fd); if (name == 0) throw ...;
\* pts_name = name;
Ptsname ==
    /\ apc = "ptsname"
    /\ \E ok \in BOOLEAN :
         IF ok
         THEN /\ \E n \in PtsNumbers : ptyName' = <<"/dev/pts/">> \o toString(n)
              /\ apc' = "grantpt"
              /\ UNCHANGED <<allocError, masterFd, returned>>
         ELSE /\ AllocThrow(unix_exception(<<"ptsname(">> \o toString(ptmx_fd)
                                           \o <<") failed">>).what)
              /\ UNCHANGED ptyName
    /\ UNCHANGED <<pfd, ptmx_fd, ptr1, ptr2, nOpens, lastOpened>>
    /\ AllocFrame

\* Variant: a failed grantpt falls back to the scan of the legacy devices.
Grantpt_FallsBack ==
    /\ apc = "grantpt"
    /\ \E ok \in BOOLEAN :
         IF ok
         THEN apc' = "unlockpt" /\ UNCHANGED <<allocError, masterFd, returned>>
         ELSE apc' = "scan" /\ UNCHANGED <<allocError, masterFd, returned>>
    /\ UNCHANGED <<pfd, ptyName, ptmx_fd, ptr1, ptr2, nOpens, lastOpened>>
    /\ AllocFrame

\* if (grantpt(ptmx_fd) != 0) throw ...
Grantpt ==
    /\ apc = "grantpt"
    /\ \E ok \in BOOLEAN :
         IF ok
         THEN apc' = "unlockpt" /\ UNCHANGED <<allocError, masterFd, returned>>
         ELSE AllocThrow(unix_exception(<<"grantpt(">> \o ptyName
                                        \o <<") failed">>).what)
    /\ UNCHANGED <<pfd, ptyName, ptmx_fd, ptr1, ptr2, nOpens, lastOpened>>
    /\ AllocFrame

\* if (unlockpt(ptmx_fd) != 0) throw ...; return ptmx_fd;
\* and, in openMaster, masterFd = ptym_open(ptyName); return masterFd;
Unlockpt ==
    /\ apc = "unlockpt"
    /\ \E ok \in BOOLEAN :
         IF ok
         THEN /\ masterFd' = ptmx_fd
              /\ returned' = returned \cup {ptmx_fd}
              /\ apc' = "returned"
              /\ UNCHANGED allocError
         ELSE AllocThrow(unix_exception(<<"unlockpt(">> \o ptyName
                                        \o <<") failed">>).what)
    /\ UNCHANGED <<pfd, ptyName, ptmx_fd, ptr1, ptr2, nOpens, lastOpened>>
    /\ AllocFrame

\* One iteration of search_for_pty's inner loop, with the loop bookkeeping
\* that follows it when the iteration ends in "continue".
ScanOpen ==
    /\ apc = "scan"
    /\ ptr1 <= Len(Ptr1)
    /\ LET c == <<ptr1, ptr2>>
           status == DevStatus(c)
       IN  /\ nOpens' = nOpens + 1
           /\ lastOpened' = MasterName(c)
           /\ IF status = "free" /\ HasFree(pfd)
              THEN \* fdm >= 0: name the slave and return the master
                   /\ pfd' = [pfd EXCEPT ![LowestFree(pfd)] = MasterName(c)]
                   /\ ptyName' = SlaveName(c)
                   /\ masterFd' = LowestFree(pfd)
                   /\ returned' = returned \cup {LowestFree(pfd)}
                   /\ apc' = "returned"
                   /\ UNCHANGED <<ptr1, ptr2, allocError>>
              ELSE /\ ptyName' = MasterName(c)
                   /\ UNCHANGED pfd
                   /\ IF OnOpenFailure(IF status = "free" THEN "EMFILE" ELSE status)
                            = "throw"
                      THEN AllocThrow(OutOfPtys) /\ UNCHANGED <<ptr1, ptr2>>
                      ELSE /\ IF InnerDone(ptr2 + 1)
                              THEN ptr1' = ptr1 + 1 /\ ptr2' = 1
                              ELSE ptr2' = ptr2 + 1 /\ UNCHANGED ptr1
                           /\ UNCHANGED <<apc, allocError, masterFd, returned>>
    /\ UNCHANGED ptmx_fd
    /\ AllocFrame

\* Both loops have ended: throw std::runtime_error("Out of ...").
ScanExhausted ==
    /\ apc = "scan"
    /\ ptr1 > Len(Ptr1)
    /\ AllocThrow(OutOfPtys)
    /\ UNCHANGED <<pfd, ptyName, ptmx_fd, ptr1, ptr2, nOpens, lastOpened>>
    /\ AllocFrame

NextAlloc ==
    \/ OpenPtmx
    \/ Ptsname
    \/ Grantpt
    \/ Unlockpt
    \/ ScanOpen
    \/ ScanExhausted

SpecAlloc == InitAlloc /\ [][NextAlloc]_vars

\* ================================================================= claims
\* The child has ended as a process.
Terminated == cpc \in {"exited", "aborted", "crashed"}

\* The child is past the report of its failure.
Reported == cpc \in {"exit", "exited", "aborted", "crashed", "in_caller"}

\* The positions of the child inside forkAndExec (runChild included).
InForkAndExec ==
    {"chdir", "setsid", "openSlave", "tiocsctty", "dup2_stdin", "dup2_stdout",
     "dup2_stderr", "close_childFd", "closeUnusedFiles", "fixEnvironment",
     "signal", "execvp", "thrown", "exit"}

ViaPipeSteps == {"tiocsctty", "dup2_stdin", "dup2_stdout", "dup2_stderr"}

\* C1 (as claimed; refuted): a forked child is always inside forkAndExec, in
\* the replaced image or terminated; it is never back in the code that
\* called forkAndExec.
C1_ChildNeverInCaller ==
    cpc # "none" => (cpc \in InForkAndExec \/ cpc = "image_replaced" \/ Terminated)

\* C2 (as claimed; refuted): every exception runChild raises is caught by
\* forkAndExec's handler, and a child that raised one ends through exit(1).
C2_FailureEndsInExit1 ==
    /\ cpc = "thrown" => HandlerMatches(exc)
    /\ (exc.type # "none" /\ (Terminated \/ cpc = "in_caller"))
          => (cpc = "exited" /\ exitStatus = 1)

\* C3: when the image is replaced the child's open descriptors are exactly
\* 0, 1 and 2, each open on the slave, and none is open on the master.
C3_ExactlyStdioOnSlave ==
    cpc = "image_replaced" =>
        /\ OpenFds(cfd) = {STDIN_FILENO, STDOUT_FILENO, STDERR_FILENO}
        /\ \A fd \in OpenFds(cfd) : cfd[fd] = ptyName
        /\ \A fd \in Fds : cfd[fd] # pfd[masterFd]

\* C3 witness: a spawn that succeeded although the slave was opened on one
\* of the standard descriptor numbers and the parent had further
\* descriptors open above 2.
C3_Witness ==
    /\ cpc = "image_replaced"
    /\ childFd <= STDERR_FILENO
    /\ \E fd \in Fds : fd > STDERR_FILENO /\ pfd[fd] # NoDev

\* C4 (as claimed; refuted): a failure of chdir, setsid, the slave's open,
\* TIOCSCTTY or dup2 is reported through the side channel and not through
\* standard error.
C4_AllEarlyFailuresViaSideChannel ==
    (Reported /\ failedStep \in {"chdir", "setsid", "openSlave"} \cup ViaPipeSteps)
        => (tunnel.printed # <<>> /\ cerr = <<>>)

\* C4 (amended): a failure of chdir, setsid or the slave's open is reported
\* on std::cerr and never through the side channel; a failure of TIOCSCTTY
\* or dup2 is never written to std::cerr, the side channel is a stdio stream
\* opened on the slave descriptor, and when that stream exists the
\* exception's text was printed to it.
C4_SideChannelOnlyOnceSlaveIsOpen ==
    /\ (Reported /\ failedStep \in {"chdir", "setsid", "openSlave"})
          => /\ cerr = <<exc.what \o <<"\n">>>>
             /\ tunnel = NoTunnel
             /\ \A i \in 1..Len(written) : written[i].via = "cerr"
    /\ failedStep \in ViaPipeSteps
          => /\ cerr = <<>>
             /\ \A i \in 1..Len(written) : written[i].via = "tunnel"
             /\ tunnel.state \in {"open", "null"}
             /\ tunnel.state = "open"
                   => /\ tunnel.fd = childFd
                      /\ tunnel.printed = <<exc.what \o <<"\n">>>>

\* C4 witness: a dup2 failure reported on a stream opened on the slave
\* descriptor, in a child that has ended.
C4_Witness ==
    /\ Terminated
    /\ failedStep = "dup2_stderr"
    /\ tunnel.state = "open"
    /\ \E i \in 1..Len(written) : written[i].dev = ptyName

\* C5 (as claimed; refuted): after a TIOCSCTTY or dup2 failure whose stream
\* could be opened and met no write error, the diagnostic has been written
\* to the slave descriptor by the time the child has terminated.
C5_DiagnosticWrittenBeforeTermination ==
    (Terminated /\ failedStep \in ViaPipeSteps /\ tunnel.state = "open"
        /\ ~tunnel.err)
        => \E i \in 1..Len(written) :
              /\ written[i].via = "tunnel"
              /\ written[i].dev = ptyName
              /\ written[i].text = exc.what \o <<"\n">>

\* C6: when execvp returns, the exception is caught in forkAndExec, a text
\* containing argv[0] is written to descriptor 2 while that descriptor is
\* open on the slave (the three standard descriptors are still open on the
\* slave when exit is called), and the child ends through exit(1).
C6_ExecFailureReportedOnSlave ==
    failedStep = "execvp" =>
        /\ cpc \in {"thrown", "exit", "exited"}
        /\ cpc = "thrown" => HandlerMatches(exc)
        /\ cpc \in {"exit", "exited"} =>
              \E i \in 1..Len(written) :
                  /\ written[i].via = "cerr"
                  /\ written[i].fd = STDERR_FILENO
                  /\ written[i].dev = ptyName
                  /\ Contains(written[i].text, cmd)
        /\ cpc = "exit" =>
              \A fd \in {STDIN_FILENO, STDOUT_FILENO, STDERR_FILENO} :
                  cfd[fd] = ptyName
        /\ cpc = "exited" => exitStatus = 1

\* C6 witness: a child that has exited after execvp returned.
C6_Witness ==
    /\ failedStep = "execvp"
    /\ cpc = "exited"
    /\ cmd = "nonexistent"

\* openMaster is over, by a return or by an exception.
AllocOver == apc \in {"returned", "threw"}

\* C7 (as claimed; refuted): a successful openMaster has opened exactly one
\* descriptor, and a failed one leaves the descriptors that were open before
\* the call, no more and no fewer.
C7_NoDescriptorLeftOnFailure ==
    /\ apc = "returned" =>
          \E fd \in Fds :
              /\ pfd0[fd] = NoDev /\ pfd[fd] # NoDev
              /\ \A g \in Fds \ {fd} : pfd[g] = pfd0[g]
    /\ apc = "threw" => pfd = pfd0

\* C8: once the scan has opened a candidate that does not exist (ENOENT),
\* every earlier candidate having been busy, openMaster has failed with
\* "Out of pseudo-terminal devices", that candidate is the last one the scan
\* opened, and no descriptor was opened and none returned.
C8_MissingDeviceEndsScan ==
    \A r \in nonBusy :
        (/\ ~ptmxAvail
         /\ r.status = "ENOENT"
         /\ \A q \in nonBusy : Lin(q.cand) >= Lin(r.cand)
         /\ nOpens >= Lin(r.cand))
        => /\ apc = "threw"
           /\ allocError = <<"Out of pseudo-terminal devices">>
           /\ nOpens = Lin(r.cand)
           /\ lastOpened = <<"/dev/pty", Ptr1[r.cand[1]], Ptr2[r.cand[2]]>>
           /\ pfd = pfd0
           /\ masterFd = -1

\* C8 witness: the scan failed at a missing candidate although a later
\* candidate was free.
C8_Witness ==
    /\ apc = "threw"
    /\ \E r \in nonBusy, f \in nonBusy :
          /\ r.status = "ENOENT" /\ f.status = "free"
          /\ Lin(r.cand) < Lin(f.cand)
          /\ nOpens = Lin(r.cand)

\* C9: when /dev/ptmx cannot be opened and exactly one candidate is free,
\* all others being busy, openMaster returns a descriptor newly opened on
\* that candidate's master /dev/ptyXY and the slave name is /dev/ttyXY.
C9_OnlyFreeCandidateIsReturned ==
    (~ptmxAvail /\ Cardinality(nonBusy) = 1 /\ AllocOver) =>
        LET r == CHOOSE q \in nonBusy : TRUE
        IN  r.status = "free" =>
              /\ apc = "returned"
              /\ masterFd \in Fds
              /\ pfd0[masterFd] = NoDev
              /\ pfd[masterFd] = <<"/dev/pty", Ptr1[r.cand[1]], Ptr2[r.cand[2]]>>
              /\ ptyName = <<"/dev/tty", Ptr1[r.cand[1]], Ptr2[r.cand[2]]>>
              /\ \A g \in Fds \ {masterFd} : pfd[g] = pfd0[g]

\* C9 witness: the only free candidate was the last of the 256, /dev/ptyTf.
C9_Witness ==
    /\ apc = "returned"
    /\ ~ptmxAvail
    /\ nonBusy = {[cand |-> <<16, 16>>, status |-> "free"]}
    /\ nOpens = 256
    /\ ptyName = <<"/dev/tty", "T", "f">>

\* C10: when /dev/ptmx cannot be opened and every candidate is busy,
\* openMaster never returns a descriptor; it fails with "Out of
\* pseudo-terminal devices" after 256 opens, with no descriptor opened.
C10_AllBusyFails ==
    (~ptmxAvail /\ nonBusy = {}) =>
        /\ apc # "returned"
        /\ masterFd = -1
        /\ pfd = pfd0
        /\ apc = "threw" =>
              /\ allocError = <<"Out of pseudo-terminal devices">>
              /\ nOpens = 256

\* C10 witness: the scan has failed with every candidate busy.
C10_Witness ==
    /\ apc = "threw"
    /\ ~ptmxAvail
    /\ nonBusy = {}
    /\ lastOpened = <<"/dev/pty", "T", "f">>

\* ------------------------------------------------------------------- C11
\* The child has completed the step.
Did(step) == \E i \in DOMAIN steps : steps[i] = step

\* The master of the session, as the parent holds it.
MasterDev == pfd0[masterFd]

\* C11: after fork the parent's descriptor table, its master included, is
\* never touched by forkAndExec, whatever the child does; a living child
\* that has not opened the slave still holds its copy of the master; once the
\* slave is open the child's copy is closed, and (the parent holding the
\* master on masterFd only, as openMaster leaves it) no child descriptor is
\* on the master: the parent alone holds it.
C11_MasterStaysWithParent ==
    /\ pfd = pfd0
    /\ MasterDev \in {p.master : p \in PtyPairs}
    /\ (cpc \in InForkAndExec \cup {"in_caller"} /\ ~Did("openSlave"))
           => cfd[masterFd] = MasterDev
    /\ (cpc # "none" /\ Did("openSlave"))
           => /\ cfd[masterFd] # MasterDev
              /\ (\A fd \in DOMAIN pfd : pfd[fd] = MasterDev => fd = masterFd)
                     => \A fd \in DOMAIN cfd : cfd[fd] # MasterDev

\* The child is past SLAVE_BOUND, alive, and the parent holds the master on
\* masterFd only; and a child whose open of the slave failed.
C11_Witness ==
    /\ ppc = "returned" /\ ret > 0
    /\ cpc = "tiocsctty" /\ Did("openSlave")
    /\ pfd[masterFd] = MasterDev
    /\ \A fd \in DOMAIN pfd : pfd[fd] = MasterDev => fd = masterFd
    /\ cfd[childFd] = ptyName

\* ------------------------------------------------------------------- C12
\* Every environment and every set of signal dispositions a child may
\* inherit, over the names and signals of the model.
AllEnvs == [EnvNames -> {Unset, <<"set">>}]
AllSigs == [Signals -> {"SIG_DFL", "SIG_IGN", "handler"}]

\* forkAndExec called with the master on descriptor 3 and the standard
\* descriptors open, from a parent with any environment (and default
\* dispositions) or any dispositions (and one of the sample environments).
InitInherit ==
    /\ pfd = [fd \in Fds |-> IF fd <= STDERR_FILENO THEN FileDev
                             ELSE IF fd = STDERR_FILENO + 1 THEN PtmxDev
                             ELSE NoDev]
    /\ masterFd = STDERR_FILENO + 1
    /\ ptyName = <<"/dev/pts/", "0">>
    /\ pfd0 = pfd
    /\ returned = {masterFd}
    /\ ppc = "fork" /\ ret = 0
    /\ apc = "returned" /\ ptmx_fd = -1 /\ ptr1 = 1 /\ ptr2 = 1
    /\ ptmxAvail = TRUE /\ nonBusy = {} /\ allocError = <<>>
    /\ nOpens = 0 /\ lastOpened = <<>>
    /\ cpc = "none" /\ cfd = AllClosed /\ childFd = -1
    /\ workingDirectory = <<>>
    /\ cmd = "/bin/sh"
    /\ build \in Builds
    /\ ppid \in ParentPids
    /\ exc = NoException /\ failedStep = "none" /\ steps = <<>>
    /\ tunnel = NoTunnel /\ cerr = <<>> /\ written = <<>>
    /\ exitStatus = -1
    /\ \/ penv \in AllEnvs /\ psig = [g \in Signals |-> "SIG_DFL"]
       \/ penv \in InheritedEnvs /\ psig \in AllSigs
    /\ env = penv
    /\ sig = psig

SpecInherit == InitInherit /\ [][Next]_vars

\* The names fixEnvironment removes in a build.
Scrubbed(apple, parentPid) ==
    IF apple
    THEN {<<"WINDOWID">>, <<"TERM_PROGRAM">>, <<"TERM_PROGRAM_VERSION">>}
         \cup {k \o toString(parentPid) : k \in PidKeyed}
    ELSE {<<"WINDOWID">>, <<"COLORTERM">>}

\* C12: whatever environment the child inherited, when it is at execvp (and
\* from then on) TERM is "terminator", WINDOWID is absent, COLORTERM is
\* absent in a non-Apple build, the three variables keyed by the parent's pid
\* and TERM_PROGRAM and TERM_PROGRAM_VERSION are absent in an Apple build, and
\* every other variable has the value the parent had; no variable is added.
C12_EnvironmentAtExec ==
    /\ cpc \in {"execvp", "image_replaced"} => Did("fixEnvironment")
    /\ DOMAIN env = EnvNames
    /\ Did("fixEnvironment")
           => /\ env[<<"TERM">>] = <<"terminator">>
              /\ \A n \in Scrubbed(build.APPLE, ppid) : env[n] = Unset
              /\ \A n \in EnvNames \ (Scrubbed(build.APPLE, ppid) \cup {<<"TERM">>}) :
                     env[n] = penv[n]

\* An Apple-build child at execvp whose parent had every variable set: the
\* variables keyed by another pid are still there.
C12_Witness ==
    /\ cpc = "execvp"
    /\ build.APPLE
    /\ \A n \in EnvNames : penv[n] = <<"set">>
    /\ \E pid \in OtherPids : env[<<"APP_ICON_">> \o toString(pid)] = <<"set">>
    /\ \E pid \in ParentPids : env[<<"APP_ICON_">> \o toString(pid)] = Unset
    /\ env[<<"COLORTERM">>] = <<"set">>

\* ------------------------------------------------------------------- C13
\* Repeated use of one generator: openMaster, forkAndExec, openMaster, ...
\* The scan environments of the repeated calls.
CycleEnvironments ==
    {{},
     {[cand |-> Cand(1), status |-> "free"], [cand |-> Cand(2), status |-> "free"]},
     {[cand |-> Cand(2), status |-> "free"], [cand |-> Cand(3), status |-> "ENOENT"]}}

InitCycle ==
    /\ InitAlloc
    /\ nonBusy \in CycleEnvironments
    /\ \A fd \in DOMAIN pfd : fd > STDERR_FILENO => pfd[fd] = NoDev

\* The calls are made one after the other, and the model follows the child
\* of the latest forkAndExec, until it has ended, and no child before it.
ChildOver ==
    cpc \in {"none", "image_replaced", "exited", "aborted", "crashed", "in_caller"}

ForgetChild ==
    /\ cpc' = "none" /\ cfd' = AllClosed /\ childFd' = -1
    /\ exc' = NoException /\ failedStep' = "none" /\ steps' = <<>>
    /\ tunnel' = NoTunnel /\ cerr' = <<>> /\ written' = <<>>
    /\ exitStatus' = -1
    /\ env' = penv /\ sig' = psig
    /\ UNCHANGED <<workingDirectory, cmd, build, ppid>>

\* The caller calls openMaster again once the previous call is over and the
\* parent is not inside forkAndExec.  The generator keeps no record of the
\* earlier call: masterFd and ptyName are simply overwritten by the new one.
OpenMasterAgain ==
    /\ apc \in {"returned", "threw"}
    /\ ppc # "fork"
    /\ ChildOver
    /\ apc' = "ptym_open"
    /\ ptmx_fd' = -1 /\ ptr1' = 1 /\ ptr2' = 1
    /\ nOpens' = 0 /\ lastOpened' = <<>> /\ allocError' = <<>>
    /\ pfd0' = pfd
    /\ ppc' = "idle" /\ ret' = 0
    /\ ForgetChild
    /\ UNCHANGED <<pfd, masterFd, ptyName, penv, psig, ptmxAvail, nonBusy, returned>>

\* The caller calls forkAndExec on a generator whose last openMaster
\* succeeded.
CallForkAndExec ==
    /\ apc = "returned"
    /\ ppc \in {"idle", "returned"}
    /\ ChildOver
    /\ ppc' = "fork" /\ ret' = 0
    /\ ForgetChild
    /\ UNCHANGED <<pfd, masterFd, ptyName, penv, psig, allocVars>>

NextCycle ==
    \/ NextAlloc
    \/ OpenMasterAgain
    \/ CallForkAndExec
    \/ Next

SpecCycle == InitCycle /\ [][NextCycle]_vars

\* C13 (as claimed; refuted): between calls, every pty master open in the
\* parent is the master of a session, that is a descriptor some openMaster
\* returned; the parent holds no other descriptor on a pty master, however
\* many times openMaster and forkAndExec have been called.
C13_OneMasterPerSession ==
    apc \in {"returned", "threw"}
        => \A fd \in DOMAIN pfd :
               pfd[fd] \notin {NoDev, FileDev} => fd \in returned

\* ------------------------------------------------------------------- C14
\* C14: the parent's part of forkAndExec is one transition, from the call to
\* the return.  It returns -1 when fork failed, and then there is no child;
\* it returns the child's positive pid otherwise.  No step of the system,
\* the child's bootstrap steps included, changes the parent's masterFd, slave
\* name, descriptor table, environment or signal dispositions.
C14_ParentBranchIsOneTransition ==
    /\ [](/\ ppc = "fork" => cpc = "none"
          /\ ppc = "returned" => \/ ret = -1 /\ cpc = "none"
                                 \/ ret \in ChildPids /\ ret > 0 /\ cpc # "none")
    /\ [][/\ <<pfd, masterFd, ptyName, penv, psig>>'
                 = <<pfd, masterFd, ptyName, penv, psig>>
          /\ <<ppc, ret>>' # <<ppc, ret>> => ppc = "fork" /\ ppc' = "returned"]_vars

\* The parent has its child's pid, and the child has meanwhile changed its
\* own descriptors, environment and dispositions, past SIGNALS_RESET.
C14_Witness ==
    /\ ppc = "returned" /\ ret \in ChildPids
    /\ cpc = "execvp"
    /\ cfd # pfd /\ env # penv /\ sig # psig
    /\ pfd = pfd0

\* ------------------------------------------------------------------- C15
\* The bootstrap steps in the order of runChild: CWD_SET, SESSION_LEADER,
\* SLAVE_BOUND, CONTROLLING_TTY_SET, STDIO_REBOUND (three dup2 and the close
\* of the slave's first descriptor), EXTRA_FDS_CLOSED, ENV_FIXED,
\* SIGNALS_RESET, IMAGE_REPLACED.
StepOrder ==
    <<"chdir", "setsid", "openSlave", "tiocsctty", "dup2_stdin", "dup2_stdout",
      "dup2_stderr", "close_childFd", "closeUnusedFiles", "fixEnvironment",
      "signal", "execvp">>

Pos(step) == CHOOSE i \in DOMAIN StepOrder : StepOrder[i] = step

IsStep(s) == \E i \in DOMAIN StepOrder : StepOrder[i] = s

\* The steps a child must have completed before the step at position p:
\* chdir only when a working directory was given, TIOCSCTTY only in a build
\* that has it, a dup2 only onto a slot that is not the slave's descriptor.
Due(s) ==
    CASE s = "chdir" -> workingDirectory # <<>>
      [] s = "tiocsctty" -> build.TIOCSCTTY
      [] s = "dup2_stdin" -> childFd # STDIN_FILENO
      [] s = "dup2_stdout" -> childFd # STDOUT_FILENO
      [] s = "dup2_stderr" -> childFd # STDERR_FILENO
      [] OTHER -> TRUE

\* C15: the child's completed steps are in the fixed order, each at most
\* once; a child that is at a step (execvp above all) has completed every
\* earlier step that was due, and none that was not; setsid is completed
\* before the slave is opened; after a failed step the child is at no step
\* any more, and everything it completed precedes the step that failed.
C15_StepsInFixedOrder ==
    /\ \A i \in DOMAIN steps : IsStep(steps[i])
    /\ \A i, j \in DOMAIN steps : i < j => Pos(steps[i]) < Pos(steps[j])
    /\ Did("openSlave") => Did("setsid")
    /\ IsStep(cpc)
           => /\ failedStep = "none"
              /\ \A i \in DOMAIN StepOrder :
                     i < Pos(cpc) => (Did(StepOrder[i]) <=> Due(StepOrder[i]))
              /\ \A i \in DOMAIN steps : Pos(steps[i]) < Pos(cpc)
    /\ cpc = "image_replaced"
           => /\ failedStep = "none"
              /\ \A i \in DOMAIN StepOrder : Did(StepOrder[i]) <=> Due(StepOrder[i])
    /\ failedStep # "none"
           => /\ ~IsStep(cpc) /\ cpc # "image_replaced"
              /\ IsStep(failedStep)
              /\ \A i \in DOMAIN StepOrder :
                     i < Pos(failedStep) => (Did(StepOrder[i]) <=> Due(StepOrder[i]))
              /\ \A i \in DOMAIN steps : Pos(steps[i]) < Pos(failedStep)

\* A child given a working directory, in a build with TIOCSCTTY, with the
\* slave on a descriptor above 2, has replaced its image after all twelve
\* steps.
C15_Witness ==
    /\ cpc = "image_replaced"
    /\ workingDirectory # <<>> /\ build.TIOCSCTTY /\ childFd > STDERR_FILENO
    /\ steps = StepOrder

\* ------------------------------------------------------------------- C16
\* The slave names ptsname may return.
PtsNames == {<<"/dev/pts/">> \o toString(n) : n \in PtsNumbers}

\* C16: the scan of the legacy devices runs only when /dev/ptmx was not
\* opened.  Once /dev/ptmx is open no legacy device is ever opened: a failing
\* ptsname, grantpt or unlockpt ends openMaster with the error text of that
\* very call and no master; when all three succeed the descriptor returned
\* is the /dev/ptmx descriptor and the slave name is the one ptsname gave.
C16_ScanOnlyWithoutPtmx ==
    /\ [](/\ (apc = "scan" \/ nOpens > 0)
              => /\ ptmx_fd = -1
                 /\ \A fd \in DOMAIN pfd : pfd[fd] # PtmxDev
                 /\ ~(ptmxAvail /\ HasFree(pfd0))
          /\ ptmx_fd >= 0
              => /\ apc # "scan" /\ nOpens = 0 /\ lastOpened = <<>>
                 /\ pfd0[ptmx_fd] = NoDev /\ pfd[ptmx_fd] = PtmxDev
                 /\ apc = "threw"
                        => /\ masterFd = -1
                           /\ allocError # OutOfPtys
                           /\ allocError[1] \in {"ptsname(", "grantpt(", "unlockpt("}
                 /\ apc = "returned"
                        => /\ masterFd = ptmx_fd
                           /\ ptyName \in PtsNames)
    /\ [][/\ (apc = "ptsname" /\ apc' = "threw") => allocError'[1] = "ptsname("
          /\ (apc = "ptsname" /\ apc' # "threw") => apc' = "grantpt" /\ ptyName' \in PtsNames
          /\ (apc = "grantpt" /\ apc' = "threw") => allocError'[1] = "grantpt("
          /\ (apc = "grantpt" /\ apc' # "threw") => apc' = "unlockpt"
          /\ (apc = "unlockpt" /\ apc' = "threw") => allocError'[1] = "unlockpt("
          /\ (apc = "unlockpt" /\ apc' # "threw") => apc' = "returned"
          /\ apc \in {"grantpt", "unlockpt"} => ptyName' = ptyName]_vars

\* /dev/ptmx was opened and unlockpt failed: openMaster has thrown, with no
\* legacy device tried.
C16_Witness ==
    /\ apc = "threw"
    /\ ptmx_fd >= 0
    /\ allocError[1] = "unlockpt("
    /\ nOpens = 0
    /\ masterFd = -1

\* ------------------------------------------------------------------- C17
\* C17: whatever descriptor n the slave was opened on, a living child that
\* is past STDIO_REBOUND has made a dup2 onto exactly the slots among 0, 1, 2
\* that differ from n; slots 0, 1 and 2 are all open on the slave; n itself
\* is closed when n > 2 and is still the slave when n <= 2; and up to that
\* point no other descriptor has changed but the master's.
C17_StdioRebound ==
    (Did("close_childFd") /\ ~Terminated) =>
        /\ childFd \in Fds
        /\ Did("dup2_stdin") <=> childFd # STDIN_FILENO
        /\ Did("dup2_stdout") <=> childFd # STDOUT_FILENO
        /\ Did("dup2_stderr") <=> childFd # STDERR_FILENO
        /\ \A slot \in {STDIN_FILENO, STDOUT_FILENO, STDERR_FILENO} :
               cfd[slot] = ptyName
        /\ childFd > STDERR_FILENO <=> cfd[childFd] = NoDev
        /\ cpc = "closeUnusedFiles"
               => \A fd \in Fds \ {STDIN_FILENO, STDOUT_FILENO, STDERR_FILENO,
                                   childFd, masterFd} : cfd[fd] = pfd[fd]

\* The slave was opened on descriptor 1: two dup2, none onto slot 1, and the
\* slave's descriptor stays open.
C17_Witness ==
    /\ cpc = "closeUnusedFiles"
    /\ childFd = STDOUT_FILENO
    /\ Did("dup2_stdin") /\ ~Did("dup2_stdout") /\ Did("dup2_stderr")
    /\ cfd[STDOUT_FILENO] = ptyName

\* ------------------------------------------------------------------- C18
ResetSet == {"SIGINT", "SIGQUIT", "SIGCHLD"}

\* C18: whatever dispositions the child inherited, when it is at execvp (and
\* from then on) SIGINT, SIGQUIT and SIGCHLD have their default disposition
\* and every other signal the inherited one.  The reset is made after the
\* environment has been fixed and before execvp: until then the child has
\* the dispositions of its parent.
C18_SignalsDefaultAtExec ==
    /\ cpc \in {"execvp", "image_replaced"} => Did("signal")
    /\ Did("signal")
           => /\ Did("fixEnvironment")
              /\ \A g \in ResetSet : sig[g] = "SIG_DFL"
              /\ \A g \in Signals \ ResetSet : sig[g] = psig[g]
    /\ ~Did("signal") => sig = psig
    /\ cpc = "signal" => Did("fixEnvironment") /\ ~Did("signal")

\* A child at execvp whose parent ignored or handled all four signals.
C18_Witness ==
    /\ cpc = "execvp"
    /\ psig["SIGINT"] = "SIG_IGN" /\ psig["SIGQUIT"] = "handler"
    /\ psig["SIGCHLD"] = "SIG_IGN" /\ psig["SIGTERM"] = "handler"
    /\ sig["SIGTERM"] = "handler"
    /\ sig["SIGCHLD"] = "SIG_DFL"

\* ------------------------------------------------------------------- C19
\* The report through the side channel failed: no stream could be opened on
\* the slave's descriptor, or the write of the text failed.
SideChannelFailed ==
    /\ failedStep \in ViaPipeSteps
    /\ tunnel.state = "null" \/ tunnel.err

\* C19 (as claimed; refuted): a child whose TIOCSCTTY or dup2 failed and whose
\* report through the side channel failed too is at no later step and has not
\* replaced its image (both hold), and it is on its way out of the process
\* or has left it (exit, or death by a signal): it is never back in the code
\* that called forkAndExec.
C19_SilentFailureStillTerminates ==
    SideChannelFailed =>
        /\ ~IsStep(cpc) /\ cpc # "image_replaced"
        /\ cpc \in {"thrown", "exit", "exited", "aborted", "crashed"}
        /\ cpc = "exited" => exitStatus # 0

\* ------------------------------------------------------------------- C20
\* The n-th device of the fixed order: the first letter changes every
\* sixteen devices, the second character with every device.
NthDevice(n) ==
    <<"/dev/pty", Ptr1[((n - 1) \div 16) + 1], Ptr2[((n - 1) % 16) + 1]>>

\* The candidates the environment has free.
FreeCandidates == {r.cand : r \in {q \in nonBusy : q.status = "free"}}

\* C20: the n-th open of the scan is of the n-th device of the fixed order;
\* while the scan goes on it holds no descriptor, and over the whole call at
\* most one descriptor is opened; the scan returns at the first candidate
\* that opens, which is the earliest free candidate of the order, and no
\* open follows the one that returned (or the failure that ended the scan).
C20_ScanOrderFirstFree ==
    /\ [](/\ nOpens > 0 => lastOpened = NthDevice(nOpens)
          /\ apc = "scan" => /\ nOpens = Lin(<<ptr1, ptr2>>) - 1
                             /\ pfd = pfd0
          /\ Cardinality({fd \in Fds : pfd[fd] # pfd0[fd]}) <= 1
          /\ (apc = "returned" /\ ptmx_fd = -1)
                 => /\ Cand(nOpens) \in FreeCandidates
                    /\ \A c \in FreeCandidates : Lin(c) >= nOpens
                    /\ pfd[masterFd] = NthDevice(nOpens)
                    /\ \A fd \in Fds \ {masterFd} : pfd[fd] = pfd0[fd])
    /\ [][/\ nOpens' \in {nOpens, nOpens + 1}
          /\ apc \in {"returned", "threw"} => nOpens' = nOpens]_vars

\* Two candidates were free, in the second row of the order and beyond; the
\* scan has returned the earlier one and has not opened the later one.
C20_Witness ==
    /\ apc = "returned" /\ ptmx_fd = -1
    /\ nOpens > 16
    /\ \E c, d \in FreeCandidates :
          /\ Lin(c) < Lin(d)
          /\ nOpens = Lin(c)
          /\ pfd[masterFd] = MasterName(c)
          /\ \A fd \in Fds : pfd[fd] # MasterName(d)

=============================================================================
